---- MODULE Spec2Model ----
(***************************************************************************)
(* The rsmpi constant bridge: rsmpi.h declares a set of RSMPI_* symbols,   *)
(* rsmpi.c defines some of them from the MPI library's own constants.      *)
(* The model follows the bridge through its life: it is compiled against   *)
(* the MPI installation of the build host, consumer translation units that *)
(* include rsmpi.h are linked with it, and the threads of the resulting    *)
(* process read the symbols.                                               *)
(***************************************************************************)
EXTENDS Integers, Sequences, FiniteSets, TLC

VARIABLES firstBuild, prevBuild, lastBuild, units, linkStatus, mem, reads

vars == <<firstBuild, prevBuild, lastBuild, units, linkStatus, mem, reads>>

(* Bounds of the model. *)
MaxUnits == 2
NumThreads == 2

Threads == 1..NumThreads

Range(s) == {s[i] : i \in DOMAIN s}

(***************************************************************************)
(* rsmpi.h: the declarations, in the order of the header.                  *)
(***************************************************************************)
Declarations ==
  << [name |-> "RSMPI_FLOAT",                      type |-> "MPI_Datatype"],
     [name |-> "RSMPI_DOUBLE",                     type |-> "MPI_Datatype"],
     [name |-> "RSMPI_INT8_T",                     type |-> "MPI_Datatype"],
     [name |-> "RSMPI_INT16_T",                    type |-> "MPI_Datatype"],
     [name |-> "RSMPI_INT32_T",                    type |-> "MPI_Datatype"],
     [name |-> "RSMPI_INT64_T",                    type |-> "MPI_Datatype"],
     [name |-> "RSMPI_UINT8_T",                    type |-> "MPI_Datatype"],
     [name |-> "RSMPI_UINT16_T",                   type |-> "MPI_Datatype"],
     [name |-> "RSMPI_UINT32_T",                   type |-> "MPI_Datatype"],
     [name |-> "RSMPI_UINT64_T",                   type |-> "MPI_Datatype"],
     [name |-> "RSMPI_DATATYPE_NULL",              type |-> "MPI_Datatype"],
     [name |-> "RSMPI_COMM_WORLD",                 type |-> "MPI_Comm"],
     [name |-> "RSMPI_COMM_NULL",                  type |-> "MPI_Comm"],
     [name |-> "RSMPI_COMM_SELF",                  type |-> "MPI_Comm"],
     [name |-> "RSMPI_GROUP_EMPTY",                type |-> "MPI_Group"],
     [name |-> "RSMPI_GROUP_NULL",                 type |-> "MPI_Group"],
     [name |-> "RSMPI_UNDEFINED",                  type |-> "int"],
     [name |-> "RSMPI_PROC_NULL",                  type |-> "int"],
     [name |-> "RSMPI_ANY_SOURCE",                 type |-> "int"],
     [name |-> "RSMPI_ANY_TAG",                    type |-> "int"],
     [name |-> "RSMPI_MESSAGE_NO_PROC",            type |-> "MPI_Message"],
     [name |-> "RSMPI_REQUEST_NULL",               type |-> "MPI_Request"],
     [name |-> "RSMPI_IDENT",                      type |-> "int"],
     [name |-> "RSMPI_CONGRUENT",                  type |-> "int"],
     [name |-> "RSMPI_SIMILAR",                    type |-> "int"],
     [name |-> "RSMPI_UNEQUAL",                    type |-> "int"],
     [name |-> "RSMPI_THREAD_SINGLE",              type |-> "int"],
     [name |-> "RSMPI_THREAD_FUNNELED",            type |-> "int"],
     [name |-> "RSMPI_THREAD_SERIALIZED",          type |-> "int"],
     [name |-> "RSMPI_THREAD_MULTIPLE",            type |-> "int"],
     [name |-> "RSMPI_MAX_LIBRARY_VERSION_STRING", type |-> "int"],
     [name |-> "RSMPI_MAX_PROCESSOR_NAME",         type |-> "int"] >>

DeclaredNames == {d.name : d \in Range(Declarations)}

DeclaredType(n) == (CHOOSE d \in Range(Declarations) : d.name = n).type

(* A declaration without `extern` at file scope is a tentative definition: *)
(* every translation unit that includes the header then defines the name.  *)
StorageClassWorldTentative(n) ==
  IF n = "RSMPI_COMM_WORLD" THEN "none" ELSE "extern"

(* Every declaration of rsmpi.h is `extern const`. *)
StorageClass(n) == "extern"

(***************************************************************************)
(* rsmpi.c: the definitions, in the order of the file.                     *)
(***************************************************************************)
Definitions ==
  << [name |-> "RSMPI_FLOAT",         type |-> "MPI_Datatype", init |-> "MPI_FLOAT"],
     [name |-> "RSMPI_DOUBLE",        type |-> "MPI_Datatype", init |-> "MPI_DOUBLE"],
     [name |-> "RSMPI_INT8_T",        type |-> "MPI_Datatype", init |-> "MPI_INT8_T"],
     [name |-> "RSMPI_INT16_T",       type |-> "MPI_Datatype", init |-> "MPI_INT16_T"],
     [name |-> "RSMPI_INT32_T",       type |-> "MPI_Datatype", init |-> "MPI_INT32_T"],
     [name |-> "RSMPI_INT64_T",       type |-> "MPI_Datatype", init |-> "MPI_INT64_T"],
     [name |-> "RSMPI_UINT8_T",       type |-> "MPI_Datatype", init |-> "MPI_UINT8_T"],
     [name |-> "RSMPI_UINT16_T",      type |-> "MPI_Datatype", init |-> "MPI_UINT16_T"],
     [name |-> "RSMPI_UINT32_T",      type |-> "MPI_Datatype", init |-> "MPI_UINT32_T"],
     [name |-> "RSMPI_UINT64_T",      type |-> "MPI_Datatype", init |-> "MPI_UINT64_T"],
     [name |-> "RSMPI_DATATYPE_NULL", type |-> "MPI_Datatype", init |-> "MPI_DATATYPE_NULL"],
     [name |-> "RSMPI_COMM_WORLD",    type |-> "MPI_Comm",     init |-> "MPI_COMM_WORLD"],
     [name |-> "RSMPI_COMM_NULL",     type |-> "MPI_Comm",     init |-> "MPI_COMM_NULL"],
     [name |-> "RSMPI_COMM_SELF",     type |-> "MPI_Comm",     init |-> "MPI_COMM_SELF"],
     [name |-> "RSMPI_GROUP_NULL",    type |-> "MPI_Group",    init |-> "MPI_GROUP_NULL"] >>

DefinedNames == {d.name : d \in Range(Definitions)}

(* How many definitions rsmpi.c holds for a name. *)
DefinitionCount(n) == Cardinality({i \in DOMAIN Definitions : Definitions[i].name = n})

DefinedTypeGroupNullAsComm(n) ==
  IF n = "RSMPI_GROUP_NULL"
    THEN "MPI_Comm"
    ELSE (CHOOSE d \in Range(Definitions) : d.name = n).type

(* The type a definition of rsmpi.c gives its symbol. *)
DefinedType(n) == (CHOOSE d \in Range(Definitions) : d.name = n).type

InitializerSelfAsWorld(n) ==
  IF n = "RSMPI_COMM_SELF"
    THEN "MPI_COMM_WORLD"
    ELSE (CHOOSE d \in Range(Definitions) : d.name = n).init

InitializerNullAsWorld(n) ==
  IF n = "RSMPI_COMM_NULL"
    THEN "MPI_COMM_WORLD"
    ELSE (CHOOSE d \in Range(Definitions) : d.name = n).init

(* The library constant a definition of rsmpi.c is initialised from. *)
Initializer(n) == (CHOOSE d \in Range(Definitions) : d.name = n).init

(***************************************************************************)
(* mpi.h, included by rsmpi.h: the constants of the MPI library that the   *)
(* header's names stand for, each with the handle type the library gives   *)
(* it.                                                                     *)
(***************************************************************************)
LibraryHeader ==
  << [name |-> "MPI_FLOAT",                      type |-> "MPI_Datatype"],
     [name |-> "MPI_DOUBLE",                     type |-> "MPI_Datatype"],
     [name |-> "MPI_INT8_T",                     type |-> "MPI_Datatype"],
     [name |-> "MPI_INT16_T",                    type |-> "MPI_Datatype"],
     [name |-> "MPI_INT32_T",                    type |-> "MPI_Datatype"],
     [name |-> "MPI_INT64_T",                    type |-> "MPI_Datatype"],
     [name |-> "MPI_UINT8_T",                    type |-> "MPI_Datatype"],
     [name |-> "MPI_UINT16_T",                   type |-> "MPI_Datatype"],
     [name |-> "MPI_UINT32_T",                   type |-> "MPI_Datatype"],
     [name |-> "MPI_UINT64_T",                   type |-> "MPI_Datatype"],
     [name |-> "MPI_DATATYPE_NULL",              type |-> "MPI_Datatype"],
     [name |-> "MPI_COMM_WORLD",                 type |-> "MPI_Comm"],
     [name |-> "MPI_COMM_NULL",                  type |-> "MPI_Comm"],
     [name |-> "MPI_COMM_SELF",                  type |-> "MPI_Comm"],
     [name |-> "MPI_GROUP_EMPTY",                type |-> "MPI_Group"],
     [name |-> "MPI_GROUP_NULL",                 type |-> "MPI_Group"],
     [name |-> "MPI_UNDEFINED",                  type |-> "int"],
     [name |-> "MPI_PROC_NULL",                  type |-> "int"],
     [name |-> "MPI_ANY_SOURCE",                 type |-> "int"],
     [name |-> "MPI_ANY_TAG",                    type |-> "int"],
     [name |-> "MPI_MESSAGE_NO_PROC",            type |-> "MPI_Message"],
     [name |-> "MPI_REQUEST_NULL",               type |-> "MPI_Request"],
     [name |-> "MPI_IDENT",                      type |-> "int"],
     [name |-> "MPI_CONGRUENT",                  type |-> "int"],
     [name |-> "MPI_SIMILAR",                    type |-> "int"],
     [name |-> "MPI_UNEQUAL",                    type |-> "int"],
     [name |-> "MPI_THREAD_SINGLE",              type |-> "int"],
     [name |-> "MPI_THREAD_FUNNELED",            type |-> "int"],
     [name |-> "MPI_THREAD_SERIALIZED",          type |-> "int"],
     [name |-> "MPI_THREAD_MULTIPLE",            type |-> "int"],
     [name |-> "MPI_MAX_LIBRARY_VERSION_STRING", type |-> "int"],
     [name |-> "MPI_MAX_PROCESSOR_NAME",         type |-> "int"] >>

LibraryNames == {c.name : c \in Range(LibraryHeader)}

LibraryType(m) == (CHOOSE c \in Range(LibraryHeader) : c.name = m).type

LibraryIndex(m) == CHOOSE i \in DOMAIN LibraryHeader : LibraryHeader[i].name = m

(***************************************************************************)
(* The MPI installations a build host may hold.  `present` says whether    *)
(* mpi.h is found, `missing` names the constants the installed version     *)
(* lacks, and `enc` selects how the library represents its constants:      *)
(*   "distinct"  every constant has its own value, the integer sentinels   *)
(*               are negative and MPI_ANY_TAG is -1;                       *)
(*   "compact"   only two values are in use, so unrelated constants        *)
(*               coincide (MPI_COMM_WORLD and MPI_COMM_SELF do, and        *)
(*               MPI_COMM_NULL differs from both).                         *)
(***************************************************************************)
Encodings == {"distinct", "compact"}

Absent == [present |-> FALSE, missing |-> {}, enc |-> "distinct"]

(* Installed versions that lack a constant: one the bridge refers to, one  *)
(* it does not.                                                            *)
Incomplete ==
  {[present |-> TRUE, missing |-> {m}, enc |-> "distinct"] :
     m \in {"MPI_INT8_T", "MPI_MESSAGE_NO_PROC"}}

Installations ==
  {Absent} \cup Incomplete \cup
  {[present |-> TRUE, missing |-> {}, enc |-> e] : e \in Encodings}

(* The value the installation's mpi.h gives constant m. *)
Val(inst, m) ==
  IF inst.enc = "distinct"
    THEN LibraryIndex(m) - LibraryIndex("MPI_ANY_TAG") - 1
    ELSE LibraryIndex(m) % 2

Provides(inst, m) == inst.present /\ m \in LibraryNames /\ m \notin inst.missing

(***************************************************************************)
(* Compiling rsmpi.c.                                                      *)
(***************************************************************************)
NoExports == [n \in {} |-> [type |-> "int", val |-> 0]]

Failed(inst) == [inst |-> inst, status |-> "failed", exports |-> NoExports]

NoBuild == [inst |-> Absent, status |-> "none", exports |-> NoExports]

(* A compiler that takes 0 for an identifier it cannot resolve. *)
CompileDefaulting(inst) ==
  [inst    |-> inst,
   status  |-> "ok",
   exports |-> [n \in DefinedNames |->
                  [type |-> DefinedType(n),
                   val  |-> IF Provides(inst, Initializer(n))
                              THEN Val(inst, Initializer(n))
                              ELSE 0]]]

(* The compiler stops at `#include "mpi.h"` when the header is not found,  *)
(* at an initializer that names a constant mpi.h does not define, and at a *)
(* second definition of a name; otherwise the object file exports every    *)
(* defined symbol with the value of its initializer.                       *)
Compile(inst) ==
  IF \/ ~inst.present
     \/ \E n \in DefinedNames : ~Provides(inst, Initializer(n))
     \/ \E n \in DefinedNames : DefinitionCount(n) > 1
    THEN Failed(inst)
    ELSE [inst    |-> inst,
          status  |-> "ok",
          exports |-> [n \in DefinedNames |->
                         [type |-> DefinedType(n),
                          val  |-> Val(inst, Initializer(n))]]]

(* A build that leaves the artifact of an earlier build in place when the  *)
(* compilation fails.                                                      *)
BuildResultStale(prev, inst) ==
  IF Compile(inst).status = "failed" /\ prev.status = "ok"
    THEN [prev EXCEPT !.inst = inst]
    ELSE Compile(inst)

(* The initializers are constant expressions over mpi.h alone: the result  *)
(* of a build does not read the previous build's output.                   *)
BuildResult(prev, inst) == Compile(inst)

(***************************************************************************)
(* Linking consumer translation units with the bridge.  A unit includes    *)
(* rsmpi.h and references one symbol of it.                                *)
(***************************************************************************)
Referenced == {"RSMPI_COMM_WORLD", "RSMPI_COMM_NULL", "RSMPI_COMM_SELF", "RSMPI_ANY_TAG"}

(* The names a unit that includes rsmpi.h defines itself. *)
HeaderDefines == {n \in DeclaredNames : StorageClass(n) # "extern"}

(* The number of definitions of n among the objects linked together. *)
LinkedDefinitions(build, us, n) ==
  (IF n \in DOMAIN build.exports THEN 1 ELSE 0)
  + (IF n \in HeaderDefines THEN Len(us) ELSE 0)

Resolve(build, us) ==
  IF \E n \in DeclaredNames \cup DOMAIN build.exports : LinkedDefinitions(build, us, n) > 1
    THEN "duplicate_definition"
    ELSE IF \E n \in Range(us) : LinkedDefinitions(build, us, n) = 0
      THEN "undefined_symbol"
      ELSE "ok"

NoImage == [n \in {} |-> 0]

(* A loader that leaves the symbols zeroed for a later initialisation. *)
LoadImageZeroed(build) == [n \in DOMAIN build.exports |-> 0]

(* The symbols have static storage and constant initializers: the image    *)
(* holds their values before any thread runs.                              *)
LoadImage(build) == [n \in DOMAIN build.exports |-> build.exports[n].val]

NoRead == [sym |-> "none", val |-> 0]

(***************************************************************************)
(* The state machine.                                                      *)
(***************************************************************************)
Init ==
  /\ firstBuild = NoBuild
  /\ prevBuild = NoBuild
  /\ lastBuild = NoBuild
  /\ units = <<>>
  /\ linkStatus = "none"
  /\ mem = NoImage
  /\ reads = [t \in Threads |-> NoRead]

(* Build the bridge against the installation found on the build host.     *)
(* firstBuild keeps the result of the build from a clean tree, prevBuild   *)
(* the result the new build replaces.                                      *)
Build(inst) ==
  /\ lastBuild' = BuildResult(lastBuild, inst)
  /\ prevBuild' = lastBuild
  /\ firstBuild' = IF firstBuild.status = "none" THEN lastBuild' ELSE firstBuild
  /\ linkStatus' = "none"
  /\ mem' = NoImage
  /\ reads' = [t \in Threads |-> NoRead]
  /\ UNCHANGED units

(* A consumer translation unit that references symbol n is compiled. *)
AddConsumer(n) ==
  /\ Len(units) < MaxUnits
  /\ units' = Append(units, n)
  /\ linkStatus' = "none"
  /\ mem' = NoImage
  /\ reads' = [t \in Threads |-> NoRead]
  /\ UNCHANGED <<firstBuild, prevBuild, lastBuild>>

(* The consumers are linked with the bridge and the program is loaded. *)
Link ==
  /\ lastBuild.status = "ok"
  /\ linkStatus = "none"
  /\ units # <<>>
  /\ linkStatus' = Resolve(lastBuild, units)
  /\ mem' = IF linkStatus' = "ok" THEN LoadImage(lastBuild) ELSE NoImage
  /\ UNCHANGED <<firstBuild, prevBuild, lastBuild, units, reads>>

(* Thread t of the running program reads symbol n. *)
Read(t, n) ==
  /\ linkStatus = "ok"
  /\ n \in Range(units)
  /\ reads' = [reads EXCEPT ![t] = [sym |-> n, val |-> mem[n]]]
  /\ UNCHANGED <<firstBuild, prevBuild, lastBuild, units, linkStatus, mem>>

Next ==
  \/ \E inst \in Installations : Build(inst)
  \/ \E n \in Referenced : AddConsumer(n)
  \/ Link
  \/ \E t \in Threads, n \in Referenced : Read(t, n)

Spec == Init /\ [][Next]_vars

(***************************************************************************)
(* Properties.                                                             *)
(***************************************************************************)

(* The library constant an RSMPI_ name stands for: the MPI_ name it        *)
(* extends by the prefix "RS".                                             *)
WithLibraryConstant == {n \in DeclaredNames : \E m \in LibraryNames : n = "RS" \o m}

HasLibraryConstant(n) == n \in WithLibraryConstant

LibraryConstantOf == [n \in DeclaredNames |-> CHOOSE m \in LibraryNames : n = "RS" \o m]

LibraryConstant(n) == LibraryConstantOf[n]

Builds == {b \in {firstBuild, prevBuild, lastBuild} : b.status # "none"}

Linked == linkStatus = "ok"

(* C1: every name declared in rsmpi.h is defined exactly once in a built   *)
(* bridge: none is declared but undefined, none is defined twice.          *)
Completeness ==
  lastBuild.status = "ok" =>
    \A n \in DeclaredNames :
      DefinitionCount(n) = 1 /\ n \in DOMAIN lastBuild.exports

(* C2: every symbol a built bridge exports, and every symbol of a linked   *)
(* program, has the value the build's installation gives the library       *)
(* constant of the same name.                                              *)
PassThrough ==
  /\ \A b \in Builds : \A n \in DOMAIN b.exports :
       /\ HasLibraryConstant(n)
       /\ b.exports[n].val = Val(b.inst, LibraryConstant(n))
  /\ Linked => \A n \in DOMAIN mem : mem[n] = Val(lastBuild.inst, LibraryConstant(n))

PassThroughWitness ==
  /\ Linked
  /\ "RSMPI_COMM_SELF" \in DOMAIN mem
  /\ mem["RSMPI_COMM_SELF"] = Val(lastBuild.inst, "MPI_COMM_SELF")
  /\ mem["RSMPI_COMM_SELF"] # Val(lastBuild.inst, "MPI_COMM_WORLD")
  /\ \E t \in Threads : reads[t] = [sym |-> "RSMPI_COMM_SELF", val |-> mem["RSMPI_COMM_SELF"]]

(* C3: a consumer that references an integer constant links against the    *)
(* bridge and reads the library's value of it, sign included.              *)
IntegerEquality ==
  \A i \in DOMAIN units :
    (DeclaredType(units[i]) = "int" /\ linkStatus # "none") =>
      /\ Linked
      /\ units[i] \in DOMAIN mem
      /\ mem[units[i]] = Val(lastBuild.inst, LibraryConstant(units[i]))

(* C4: linking any number of consumer units with the bridge never ends in  *)
(* a duplicate-definition error: the header defines nothing and no name    *)
(* has more than one definition among the linked objects.                  *)
DefinedOnceDeclaredMany ==
  /\ linkStatus # "duplicate_definition"
  /\ lastBuild.status = "ok" =>
       \A n \in DeclaredNames : LinkedDefinitions(lastBuild, units, n) <= 1

DefinedOnceDeclaredManyWitness ==
  /\ Len(units) >= 2
  /\ units[1] = "RSMPI_COMM_WORLD"
  /\ units[2] = "RSMPI_COMM_WORLD"
  /\ Linked
  /\ LinkedDefinitions(lastBuild, units, "RSMPI_COMM_WORLD") = 1

Immutability ==
  /\ [](Linked =>
          /\ DOMAIN mem = DOMAIN lastBuild.exports
          /\ \A n \in DOMAIN mem : mem[n] = lastBuild.exports[n].val
          /\ \A t \in Threads :
               reads[t] # NoRead => reads[t].val = lastBuild.exports[reads[t].sym].val)
  /\ [][(Linked /\ linkStatus' = "ok") => mem' = mem]_vars

ImmutabilityWitness ==
  /\ Linked
  /\ \A t \in Threads : reads[t] # NoRead
  /\ \E t1, t2 \in Threads : reads[t1].sym # reads[t2].sym
  /\ \E t \in Threads : reads[t].val # 0

(* C7: a build yields an artifact only when mpi.h is found and provides    *)
(* every constant an initializer names; otherwise it fails, exports        *)
(* nothing and nothing is linked against it.                               *)
FailTheBuild ==
  /\ \A b \in Builds :
       IF b.inst.present /\ \A i \in DOMAIN Definitions : Provides(b.inst, Definitions[i].init)
         THEN TRUE
         ELSE b.status = "failed" /\ b.exports = NoExports
  /\ linkStatus # "none" => lastBuild.status = "ok"

FailTheBuildWitness ==
  /\ firstBuild.status = "ok"
  /\ prevBuild.status = "failed"
  /\ prevBuild.inst.present
  /\ prevBuild.inst.missing = {"MPI_INT8_T"}
  /\ lastBuild.status = "failed"
  /\ ~lastBuild.inst.present
  /\ lastBuild.exports = NoExports

(* C8: when rsmpi.h declares a name that rsmpi.c does not define, building *)
(* the bridge fails.                                                       *)
UnsuppliedIsBuildError ==
  (\E n \in DeclaredNames : DefinitionCount(n) = 0) => lastBuild.status # "ok"

ConformsToInterface ==
  lastBuild.status = "ok" =>
    \A n \in DOMAIN lastBuild.exports :
      /\ n \in DeclaredNames
      /\ lastBuild.exports[n].type = DeclaredType(n)
      /\ DeclaredType(n) \in {"MPI_Datatype", "MPI_Comm", "MPI_Group"}
      /\ LibraryType(Initializer(n)) = DeclaredType(n)

ConformsToInterfaceWitness ==
  /\ lastBuild.status = "ok"
  /\ DOMAIN lastBuild.exports = DefinedNames
  /\ lastBuild.exports["RSMPI_GROUP_NULL"].type = "MPI_Group"
  /\ lastBuild.exports["RSMPI_COMM_SELF"].type = "MPI_Comm"
  /\ lastBuild.exports["RSMPI_FLOAT"].type = "MPI_Datatype"

====
